---- MODULE Spec2Model ----
(***************************************************************************)
(* A model of osint.py: the query normaliser (parse_osint_query), the task *)
(* plan builder (create_investigation_plan), the investigation runner      *)
(* (run_osint_investigation) and the process entry point (__main__).       *)
(*                                                                         *)
(* Text is a sequence of atoms.  An atom is either one character typed by  *)
(* the user or a fixed fragment of a literal of the source, so the text a  *)
(* sequence stands for is the concatenation of its atoms.                  *)
(***************************************************************************)
EXTENDS Integers, Sequences, FiniteSets, TLC

\* ------------------------------------------------------------- bounds --
\* Longest query typed in the normaliser specification.
MaxLen == 4
\* Last clock tick of the runner specification.
MaxClock == 3
\* Number of calls of run_osint_investigation in one behaviour.
MaxRuns == 2
\* Clock ticks per second: datetime.now() is finer than the '%S' field.
TicksPerSecond == 2

\* ---------------------------------------------------------- constants --
\* "=" * 50
SepLen == 50

\* --------------------------------------------------------------- text --
\* The marker "Enter target for OSINT:" as two atoms: its text up to the
\* colon, and the colon.  An occurrence of the marker in a text built from
\* Alphabet is exactly an occurrence of these two atoms in a row.
Marker == <<"Enter target for OSINT", ":">>

\* The prompt of input(): the marker and one blank.
Prompt == Marker \o <<" ">>

\* What the user can type, atom by atom.
Alphabet == {"Enter target for OSINT", ":", " ", "a"}

IsSpace(c) == c = " "

\* s[from..] (1-based), the rest of s.
Drop(s, n) == SubSeq(s, n + 1, Len(s))

StartsWith(s, p) == Len(p) <= Len(s) /\ SubSeq(s, 1, Len(p)) = p

\* Python's `sub in s`.
Contains(s, sub) ==
    \E i \in 0..(Len(s) - Len(sub)) : SubSeq(s, i + 1, i + Len(sub)) = sub

\* Python's s.replace(old, new), old not empty: one pass from the left over
\* the occurrences of old that do not overlap.
RECURSIVE replace(_, _, _)
replace(s, old, new) ==
    IF Len(s) < Len(old) THEN s
    ELSE IF StartsWith(s, old) THEN new \o replace(Drop(s, Len(old)), old, new)
    ELSE <<Head(s)>> \o replace(Tail(s), old, new)

RECURSIVE lstrip(_)
lstrip(s) == IF s # <<>> /\ IsSpace(Head(s)) THEN lstrip(Tail(s)) ELSE s

RECURSIVE rstrip(_)
rstrip(s) ==
    IF s # <<>> /\ IsSpace(s[Len(s)]) THEN rstrip(SubSeq(s, 1, Len(s) - 1)) ELSE s

\* Python's s.strip().
strip(s) == lstrip(rstrip(s))

\* -------------------------------------------------- parse_osint_query --
\* The three fixed parts of the f-string around the two {query} fields.
TemplateHead == <<"\n    Investigation target: ">>
TemplateMid ==
    <<"\n    \n    Required:\n    1. Find all available information on the target\n    2. Verify provided assumptions about age\n    3. If requested - determine the birth month\n    4. If requested - check presence on specialized forums\n    \n    Original query: ">>
TemplateTail == <<"\n    ">>

task_description(q) ==
    TemplateHead \o q \o TemplateMid \o q \o TemplateTail

\* The normaliser without its .strip() call.
parse_osint_query_nostrip(q) ==
    IF Contains(q, Marker)
    THEN task_description(replace(q, Marker, <<>>))
    ELSE task_description(q)

parse_osint_query(q) ==
    IF Contains(q, Marker)
    THEN task_description(strip(replace(q, Marker, <<>>)))
    ELSE task_description(q)

\* ------------------------------------------------------------- agents --
\* An Agent is its role, its tools and its delegation flag ("default" where
\* the source does not pass allow_delegation); goal and backstory are fixed
\* texts that no operation reads.
search_tool == "search_tool"
scrape_tool == "scrape_tool"

lead_analyst ==
    [role |-> "Lead OSINT Analyst", tools |-> <<search_tool>>,
     allow_delegation |-> "True"]
social_expert ==
    [role |-> "Social Media Expert", tools |-> <<search_tool, scrape_tool>>,
     allow_delegation |-> "default"]
technical_analyst ==
    [role |-> "Technical Analyst", tools |-> <<search_tool, scrape_tool>>,
     allow_delegation |-> "default"]
behavior_analyst ==
    [role |-> "Behavioral Analyst", tools |-> <<search_tool>>,
     allow_delegation |-> "default"]
verification_expert ==
    [role |-> "Data Verification Expert", tools |-> <<search_tool, scrape_tool>>,
     allow_delegation |-> "default"]
deep_search_expert ==
    [role |-> "Deep Search Expert", tools |-> <<search_tool, scrape_tool>>,
     allow_delegation |-> "default"]
task_keeper ==
    [role |-> "Task Keeper", tools |-> <<search_tool>>,
     allow_delegation |-> "default"]
context_analyst ==
    [role |-> "Context Analyst", tools |-> <<search_tool>>,
     allow_delegation |-> "default"]
manager_agent ==
    [role |-> "OSINT Manager", tools |-> <<>>, allow_delegation |-> "True"]

\* ------------------------------------------ create_investigation_plan --
\* One entry per tasks.append(Task(...)), in the order of the source: the
\* text of the description before and after {target}, the first line of
\* expected_output, and the agent.
TaskTemplates ==
    << [before |-> <<"\n        Conduct a preliminary analysis of the target: ">>,
        after |-> <<"\n        1. Identify main presence platforms ...">>,
        expected_output |-> "Provide a structured report containing:",
        agent |-> lead_analyst],
       [before |-> <<"\n        Based on the preliminary analysis, investigate the social networks of ">>,
        after |-> <<":\n        1. Find all related profiles ...">>,
        expected_output |-> "Provide a report including:",
        agent |-> social_expert],
       [before |-> <<"\n        Conduct a technical analysis of the found data on ">>,
        after |-> <<":\n        1. Check for data leaks ...">>,
        expected_output |-> "Provide a technical report containing:",
        agent |-> technical_analyst],
       [before |-> <<"\n        Based on the collected data, analyze the behavior of ">>,
        after |-> <<":\n        1. Determine main interests ...">>,
        expected_output |-> "Provide a behavioral analysis including:",
        agent |-> behavior_analyst],
       [before |-> <<"\n        Analyze all collected data on ">>,
        after |-> <<":\n        1. Combine information from all agents ...">>,
        expected_output |-> "Provide a final report containing:",
        agent |-> lead_analyst],
       [before |-> <<"\n        Conduct a deep search for information on ">>,
        after |-> <<":\n        1. Investigate archival data and historical records ...">>,
        expected_output |-> "Provide a detailed report including:",
        agent |-> deep_search_expert],
       [before |-> <<"\n        Verify the reliability of all collected information on ">>,
        after |-> <<":\n        1. Conduct cross-reference analysis of data ...">>,
        expected_output |-> "Provide a verification report including:",
        agent |-> verification_expert] >>

\* Task(description=f"...{target}...", expected_output=..., agent=...).
Task(tpl, t) ==
    [description |-> tpl.before \o t \o tpl.after,
     expected_output |-> tpl.expected_output,
     agent |-> tpl.agent]

\* The plan builder with the deep-search and verification tasks exchanged.
create_investigation_plan_swapped(t) ==
    [i \in 1..Len(TaskTemplates) |->
        Task(TaskTemplates[IF i = 6 THEN 7 ELSE IF i = 7 THEN 6 ELSE i], t)]

create_investigation_plan(t) ==
    [i \in 1..Len(TaskTemplates) |-> Task(TaskTemplates[i], t)]

\* The agents argument of Crew(...) without deep_search_expert.
CrewAgents_short ==
    <<lead_analyst, social_expert, technical_analyst, behavior_analyst,
      verification_expert, task_keeper, context_analyst>>

\* The agents argument of Crew(...).
CrewAgents ==
    <<lead_analyst, social_expert, technical_analyst, behavior_analyst,
      verification_expert, deep_search_expert, task_keeper, context_analyst>>

\* Crew(agents=..., tasks=..., process=Process.hierarchical,
\*      manager_agent=manager_agent, memory=False, planning=True).
Crew(plan) ==
    [agents |-> CrewAgents, tasks |-> plan, process |-> "hierarchical",
     manager_agent |-> manager_agent, memory |-> FALSE, planning |-> TRUE]

NoCrew ==
    [agents |-> <<>>, tasks |-> <<>>, process |-> "", manager_agent |-> manager_agent,
     memory |-> FALSE, planning |-> FALSE]

\* ------------------------------------------------------------- values --
\* What crew.kickoff() returns: an object with a text (str(result)) and a
\* truth value (bool(result)).  Older releases of the orchestrator return a
\* str, whose truth value is that of being non-empty.
EmptyStr == [kind |-> "str", text |-> <<>>, truthy |-> FALSE]
Report == [kind |-> "str", text |-> <<" ", "r">>, truthy |-> TRUE]
Results == {EmptyStr, Report}

\* Python's None.
NoneVal == [kind |-> "NoneType", text |-> <<"None">>, truthy |-> FALSE]

\* str(result) without its surrounding blanks.
str_stripped(r) == strip(r.text)

\* str(result).
str(r) == r.text

\* An exception in flight: where it was raised and its class.  What the
\* external calls raise is taken from the subclasses of Exception.
NoExc == [at |-> "", class |-> ""]
Raised(where) == [at |-> where, class |-> "Exception"]

\* A handler for ValueError only.
Catches_narrow(e) == e.class = "ValueError"

\* except Exception as e.
Catches(e) == e.class = "Exception"

\* ------------------------------------------------------------ reports --
\* datetime.now() is the clock; strftime('%Y%m%d_%H%M%S') keeps the second.
strftime(now) == now \div TicksPerSecond

Unset == -1
NoFile == <<>>

\* One name for every report.
ReportPath_fixed(ts) == <<"osint_results/investigation", ".txt">>

\* f'osint_results/investigation_{timestamp}.txt'
ReportPath(ts) == <<"osint_results/investigation_", ts, ".txt">>

\* "=" * 50
Sep == [i \in 1..SepLen |-> "="]

\* The two f.write calls before the target.
header_lines == <<"OSINT Investigation Report", "\n">> \o Sep \o <<"\n", "\n">>

\* The two f.write calls of the target and the second separator.
target_lines(t) == <<"Assigned task: ">> \o t \o <<"\n">> \o Sep \o <<"\n", "\n">>

\* ------------------------------------------------------------- inputs --
\* Lines typed at the prompt of the entry point.
Queries == {<<>>, <<"a">>}
\* Arguments of a direct call of run_osint_investigation.
Targets == {<<>>, <<"a">>}

\* -------------------------------------------------------------- state --
VARIABLES
    pc,                \* position of the control flow
    entry,             \* "main": the entry point, "call": a direct call of the runner
    query,             \* __main__: query
    target,            \* run_osint_investigation: target (__main__: formatted_task)
    investigation_id,  \* the second of investigation_id
    tasks,             \* the list create_investigation_plan returned
    crew,              \* the Crew constructed
    result,            \* run_osint_investigation: result
    timestamp,         \* run_osint_investigation: timestamp
    f,                 \* the path of the open report file, or NoFile
    exc,               \* the exception in flight or handled, or NoExc
    returned,          \* what the runner returned (__main__: result)
    fs,                \* osint_results/: path -> content
    stdout,            \* what this invocation wrote to standard output
    clock,             \* datetime.now(), in ticks
    fs0,               \* history: fs when the current call started
    kickoffs,          \* history: calls of crew.kickoff() in the current call
    returnedAt,        \* history: the clock when crew.kickoff() returned
    events,            \* history: the stages the current invocation went through
    prev,              \* history: the call before the current one
    nCalls,            \* history: calls of the runner so far
    nSucc,             \* history: calls of the runner that returned their result
    typed,             \* normaliser specification: the text typed
    plain,             \* normaliser specification: parse_osint_query(typed)
    prompted           \* normaliser specification: parse_osint_query(prompt + typed)

runVars ==
    <<pc, entry, query, target, investigation_id, tasks, crew, result, timestamp,
      f, exc, returned, fs, stdout, clock, fs0, kickoffs, returnedAt, events, prev,
      nCalls, nSucc>>
parseVars == <<typed, plain, prompted>>
vars == <<runVars, parseVars>>

NoText == <<>>
NoPrev ==
    [ok |-> FALSE, target |-> <<>>, timestamp |-> Unset, path |-> NoFile,
     content |-> <<>>]

InitRun ==
    /\ pc = "idle"
    /\ entry = "main"
    /\ query = <<>>
    /\ target = <<>>
    /\ investigation_id = Unset
    /\ tasks = <<>>
    /\ crew = NoCrew
    /\ result = NoneVal
    /\ timestamp = Unset
    /\ f = NoFile
    /\ exc = NoExc
    /\ returned = NoneVal
    /\ fs = <<>>
    /\ stdout = <<>>
    /\ clock = 0
    /\ fs0 = <<>>
    /\ kickoffs = 0
    /\ returnedAt = Unset
    /\ events = <<>>
    /\ prev = NoPrev
    /\ nCalls = 0
    /\ nSucc = 0

InitParse ==
    /\ typed = <<>>
    /\ plain = NoText
    /\ prompted = NoText

Init == InitRun /\ InitParse

\* ------------------------------------------------------------- runner --
\* The file at path p created or truncated (open(p, 'w')).
Opened(files, p) ==
    [x \in DOMAIN files \cup {p} |-> IF x = p THEN <<>> ELSE files[x]]

\* f.write(text) on the file at path p.
Written(files, p, text) == [files EXCEPT ![p] = @ \o text]

\* What the call that just ended leaves for the history of the next one.
LastCall ==
    IF nCalls = 0 THEN NoPrev
    ELSE [ok |-> exc = NoExc,
          target |-> target,
          timestamp |-> timestamp,
          path |-> IF exc = NoExc THEN ReportPath(timestamp) ELSE NoFile,
          content |-> IF exc = NoExc THEN fs[ReportPath(timestamp)] ELSE <<>>]

\* The locals of a call of the runner before its first statement.
EnterRun ==
    /\ pc \in {"idle", "exit"}
    /\ nCalls < MaxRuns
    /\ nCalls' = nCalls + 1
    /\ prev' = LastCall
    /\ investigation_id' = Unset
    /\ tasks' = <<>>
    /\ crew' = NoCrew
    /\ result' = NoneVal
    /\ timestamp' = Unset
    /\ f' = NoFile
    /\ exc' = NoExc
    /\ returned' = NoneVal
    /\ fs0' = fs
    /\ kickoffs' = 0
    /\ returnedAt' = Unset
    /\ UNCHANGED <<fs, clock, nSucc, parseVars>>

\* __main__: query = input("Enter target for OSINT: ")
MainInput(q) ==
    /\ EnterRun
    /\ entry' = "main"
    /\ query' = q
    /\ target' = <<>>
    /\ stdout' = <<Prompt>>
    /\ events' = <<>>
    /\ pc' = "main_parse"

\* __main__: formatted_task = parse_osint_query(query), then the call of
\* run_osint_investigation(formatted_task).
MainParse ==
    /\ pc = "main_parse"
    /\ target' = parse_osint_query(query)
    /\ events' = Append(events, "normalize")
    /\ pc' = "run_id"
    /\ UNCHANGED <<entry, query, investigation_id, tasks, crew, result, timestamp,
                   f, exc, returned, fs, stdout, clock, fs0, kickoffs, returnedAt,
                   prev, nCalls, nSucc, parseVars>>

\* A direct call run_osint_investigation(t).
CallRun(t) ==
    /\ EnterRun
    /\ entry' = "call"
    /\ query' = <<>>
    /\ target' = t
    /\ stdout' = <<>>
    /\ events' = <<>>
    /\ pc' = "run_id"

\* investigation_id = f"osint_{datetime.now().strftime(...)}"
GenId ==
    /\ pc = "run_id"
    /\ investigation_id' = strftime(clock)
    /\ pc' = "plan"
    /\ UNCHANGED <<entry, query, target, tasks, crew, result, timestamp, f, exc,
                   returned, fs, stdout, clock, fs0, kickoffs, returnedAt, events,
                   prev, nCalls, nSucc, parseVars>>

\* tasks=create_investigation_plan(target), evaluated before Crew is called.
BuildPlan ==
    /\ pc = "plan"
    /\ tasks' = create_investigation_plan(target)
    /\ events' = Append(events, "plan")
    /\ pc' = "crew"
    /\ UNCHANGED <<entry, query, target, investigation_id, crew, result, timestamp,
                   f, exc, returned, fs, stdout, clock, fs0, kickoffs, returnedAt,
                   prev, nCalls, nSucc, parseVars>>

\* crew = Crew(...)
MakeCrew ==
    /\ pc = "crew"
    /\ crew' = Crew(tasks)
    /\ pc' = "kickoff"
    /\ UNCHANGED <<entry, query, target, investigation_id, tasks, result, timestamp,
                   f, exc, returned, fs, stdout, clock, fs0, kickoffs, returnedAt,
                   events, prev, nCalls, nSucc, parseVars>>

\* Crew(...) raises.
CrewRaises ==
    /\ pc = "crew"
    /\ exc' = Raised("crew")
    /\ pc' = "except"
    /\ UNCHANGED <<entry, query, target, investigation_id, tasks, crew, result,
                   timestamp, f, returned, fs, stdout, clock, fs0, kickoffs,
                   returnedAt, events, prev, nCalls, nSucc, parseVars>>

\* result = crew.kickoff(), returning r.
Kickoff(r) ==
    /\ pc = "kickoff"
    /\ result' = r
    /\ kickoffs' = kickoffs + 1
    /\ returnedAt' = clock
    /\ events' = Append(events, "orchestrate")
    /\ pc' = "stamp"
    /\ UNCHANGED <<entry, query, target, investigation_id, tasks, crew, timestamp,
                   f, exc, returned, fs, stdout, clock, fs0, prev, nCalls, nSucc,
                   parseVars>>

\* crew.kickoff() raises.
KickoffRaises ==
    /\ pc = "kickoff"
    /\ kickoffs' = kickoffs + 1
    /\ events' = Append(events, "orchestrate")
    /\ exc' = Raised("kickoff")
    /\ pc' = "except"
    /\ UNCHANGED <<entry, query, target, investigation_id, tasks, crew, result,
                   timestamp, f, returned, fs, stdout, clock, fs0, returnedAt, prev,
                   nCalls, nSucc, parseVars>>

\* The runner naming the report by the second of investigation_id.
Stamp_reused ==
    /\ pc = "stamp"
    /\ timestamp' = investigation_id
    /\ pc' = "open"
    /\ UNCHANGED <<entry, query, target, investigation_id, tasks, crew, result, f,
                   exc, returned, fs, stdout, clock, fs0, kickoffs, returnedAt,
                   events, prev, nCalls, nSucc, parseVars>>

\* timestamp = datetime.now().strftime('%Y%m%d_%H%M%S')
Stamp ==
    /\ pc = "stamp"
    /\ timestamp' = strftime(clock)
    /\ pc' = "open"
    /\ UNCHANGED <<entry, query, target, investigation_id, tasks, crew, result, f,
                   exc, returned, fs, stdout, clock, fs0, kickoffs, returnedAt,
                   events, prev, nCalls, nSucc, parseVars>>

\* os.makedirs('osint_results', exist_ok=True), then
\* with open(f'osint_results/investigation_{timestamp}.txt', 'w', ...) as f:
\* the file is created, or truncated when it exists.
Open ==
    /\ pc = "open"
    /\ f' = ReportPath(timestamp)
    /\ fs' = Opened(fs, ReportPath(timestamp))
    /\ events' = Append(events, "persist")
    /\ pc' = "write_header"
    /\ UNCHANGED <<entry, query, target, investigation_id, tasks, crew, result,
                   timestamp, exc, returned, stdout, clock, fs0, kickoffs,
                   returnedAt, prev, nCalls, nSucc, parseVars>>

\* os.makedirs or open raises (OSError): no file is created.
OpenRaises ==
    /\ pc = "open"
    /\ exc' = Raised("open")
    /\ pc' = "except"
    /\ UNCHANGED <<entry, query, target, investigation_id, tasks, crew, result,
                   timestamp, f, returned, fs, stdout, clock, fs0, kickoffs,
                   returnedAt, events, prev, nCalls, nSucc, parseVars>>

\* The four f.write calls of the header, the target and the separators.
WriteHeader ==
    /\ pc = "write_header"
    /\ fs' = Written(fs, f, header_lines \o target_lines(target))
    /\ pc' = "write_result"
    /\ UNCHANGED <<entry, query, target, investigation_id, tasks, crew, result,
                   timestamp, f, exc, returned, stdout, clock, fs0, kickoffs,
                   returnedAt, events, prev, nCalls, nSucc, parseVars>>

\* f.write(str(result)), and the end of the with block, which closes f.
WriteResult ==
    /\ pc = "write_result"
    /\ fs' = Written(fs, f, str(result))
    /\ f' = NoFile
    /\ pc' = "return"
    /\ UNCHANGED <<entry, query, target, investigation_id, tasks, crew, result,
                   timestamp, exc, returned, stdout, clock, fs0, kickoffs,
                   returnedAt, events, prev, nCalls, nSucc, parseVars>>

\* str(result) or the write of it raises (__str__, UnicodeEncodeError on a
\* lone surrogate, OSError): the with block closes f, and what was written
\* before stays in the file.
WriteRaises ==
    /\ pc = "write_result"
    /\ f' = NoFile
    /\ exc' = Raised("write")
    /\ pc' = "except"
    /\ UNCHANGED <<entry, query, target, investigation_id, tasks, crew, result,
                   timestamp, returned, fs, stdout, clock, fs0, kickoffs,
                   returnedAt, events, prev, nCalls, nSucc, parseVars>>

\* Where the control flow goes when the runner has returned.
AfterRun == IF entry = "main" THEN "main_report" ELSE "exit"

\* return result
Return ==
    /\ pc = "return"
    /\ returned' = result
    /\ nSucc' = nSucc + 1
    /\ events' = Append(events, "return")
    /\ pc' = AfterRun
    /\ UNCHANGED <<entry, query, target, investigation_id, tasks, crew, result,
                   timestamp, f, exc, fs, stdout, clock, fs0, kickoffs, returnedAt,
                   prev, nCalls, parseVars>>

\* except Exception as e: print(f"Error: {str(e)}"); return None.  An
\* exception the clause does not catch leaves the runner.
Except ==
    /\ pc = "except"
    /\ IF Catches(exc)
       THEN /\ stdout' = Append(stdout, <<"Error: ", exc.at>>)
            /\ returned' = NoneVal
            /\ events' = Append(events, "return")
            /\ pc' = AfterRun
       ELSE /\ pc' = "propagated"
            /\ UNCHANGED <<stdout, returned, events>>
    /\ UNCHANGED <<entry, query, target, investigation_id, tasks, crew, result,
                   timestamp, f, exc, fs, clock, fs0, kickoffs, returnedAt, prev,
                   nCalls, nSucc, parseVars>>

\* __main__: if result: print("\nInvestigation results:"); print(result)
MainReport ==
    /\ pc = "main_report"
    /\ stdout' = IF returned.truthy
                 THEN stdout \o <<<<"\nInvestigation results:">>, str(returned)>>
                 ELSE stdout
    /\ pc' = "exit"
    /\ UNCHANGED <<entry, query, target, investigation_id, tasks, crew, result,
                   timestamp, f, exc, returned, fs, clock, fs0, kickoffs,
                   returnedAt, events, prev, nCalls, nSucc, parseVars>>

\* Time passes.
Tick ==
    /\ clock < MaxClock
    /\ clock' = clock + 1
    /\ UNCHANGED <<pc, entry, query, target, investigation_id, tasks, crew, result,
                   timestamp, f, exc, returned, fs, stdout, fs0, kickoffs,
                   returnedAt, events, prev, nCalls, nSucc, parseVars>>

Next ==
    \/ \E q \in Queries : MainInput(q)
    \/ MainParse
    \/ \E t \in Targets : CallRun(t)
    \/ GenId
    \/ BuildPlan
    \/ MakeCrew
    \/ CrewRaises
    \/ \E r \in Results : Kickoff(r)
    \/ KickoffRaises
    \/ Stamp
    \/ Open
    \/ OpenRaises
    \/ WriteHeader
    \/ WriteResult
    \/ WriteRaises
    \/ Return
    \/ Except
    \/ MainReport
    \/ Tick

Spec == Init /\ [][Next]_vars

\* ------------------------------------------- normaliser specification --
\* The user types one more atom.
TypeAtom(c) ==
    /\ plain = NoText
    /\ prompted = NoText
    /\ Len(typed) < MaxLen
    /\ typed' = Append(typed, c)
    /\ UNCHANGED <<plain, prompted, runVars>>

\* parse_osint_query(X)
NormalizePlain ==
    /\ plain = NoText
    /\ plain' = parse_osint_query(typed)
    /\ UNCHANGED <<typed, prompted, runVars>>

\* parse_osint_query("Enter target for OSINT: " + X)
NormalizePrompted ==
    /\ prompted = NoText
    /\ prompted' = parse_osint_query(Prompt \o typed)
    /\ UNCHANGED <<typed, plain, runVars>>

NextParse ==
    \/ \E c \in Alphabet : TypeAtom(c)
    \/ NormalizePlain
    \/ NormalizePrompted

SpecParse == Init /\ [][NextParse]_vars

\* ======================================================== properties ==
\* The runner has returned to its caller and no later call has started.
AfterCall == pc \in {"main_report", "exit"}
Succeeded == AfterCall /\ exc = NoExc
Failed == AfterCall /\ exc # NoExc

\* s between its first and its last atom that is not a blank.
Trimmed(s) ==
    LET keep == {i \in DOMAIN s : s[i] # " "}
    IN  IF keep = {} THEN <<>>
        ELSE SubSeq(s, CHOOSE i \in keep : \A j \in keep : i <= j,
                       CHOOSE i \in keep : \A j \in keep : j <= i)

\* ------------------------------------------------------------------ C1
PlanAgents ==
    <<lead_analyst, social_expert, technical_analyst, behavior_analyst,
      lead_analyst, deep_search_expert, verification_expert>>
PlanOpenings ==
    <<"\n        Conduct a preliminary analysis of the target: ",
      "\n        Based on the preliminary analysis, investigate the social networks of ",
      "\n        Conduct a technical analysis of the found data on ",
      "\n        Based on the collected data, analyze the behavior of ",
      "\n        Analyze all collected data on ",
      "\n        Conduct a deep search for information on ",
      "\n        Verify the reliability of all collected information on ">>

\* C1: for every target, the empty one included, the plan the builder
\* returns has exactly 7 tasks, in the order preliminary, social, technical,
\* behavioral, aggregation, deep-search, verification, assigned to
\* lead_analyst, social_expert, technical_analyst, behavior_analyst,
\* lead_analyst, deep_search_expert, verification_expert, and each task's
\* description holds the target verbatim, right after the task's opening.
C1_PlanOfSevenTasks ==
    tasks # <<>> =>
        /\ Len(tasks) = 7
        /\ \A i \in 1..7 :
            /\ tasks[i].agent = PlanAgents[i]
            /\ tasks[i].description[1] = PlanOpenings[i]
            /\ Contains(tasks[i].description, target)
            /\ SubSeq(tasks[i].description, 2, Len(target) + 1) = target

\* A plan built for the formatted task of the entry point.
C1_Witness == Len(tasks) = 7 /\ entry = "main" /\ Len(target) > 3

NotNewline(c) == c # "\n"

\* C3 as stated: the report of a successful run is the header line, a
\* separator line, the target, a separator line and the result's text,
\* with nothing but line ends between them.
C3_Original ==
    Succeeded =>
        SelectSeq(fs[ReportPath(timestamp)], NotNewline) =
            <<"OSINT Investigation Report">> \o [i \in 1..50 |-> "="] \o target
                \o [i \in 1..50 |-> "="] \o result.text

\* C3, amended: the report of a successful run is exactly the header line,
\* a separator line of 50 "=" and an empty line, the line "Assigned task: "
\* followed by the target, a second separator line and an empty line, and
\* the result's text unmodified.
C3_ReportLayout ==
    Succeeded =>
        fs[ReportPath(timestamp)] =
            <<"OSINT Investigation Report", "\n">> \o [i \in 1..50 |-> "="]
                \o <<"\n", "\n", "Assigned task: ">> \o target \o <<"\n">>
                \o [i \in 1..50 |-> "="] \o <<"\n", "\n">> \o result.text

\* A successful run of the entry point whose result has a leading blank.
C3_Witness == Succeeded /\ entry = "main" /\ result = Report /\ query = <<"a">>

\* ------------------------------------------------------------------ C4
\* C4: after two successive successful calls for the same target whose
\* file-name timestamps differ, the two reports are two files, both exist,
\* and the first has the content it had when the first call returned.
C4_DistinctReports ==
    (Succeeded /\ prev.ok /\ prev.target = target /\ prev.timestamp # timestamp) =>
        /\ ReportPath(timestamp) # prev.path
        /\ {ReportPath(timestamp), prev.path} \subseteq DOMAIN fs
        /\ fs[prev.path] = prev.content

\* Two successful calls for one target in two different seconds.
C4_Witness ==
    Succeeded /\ prev.ok /\ prev.target = target /\ prev.timestamp # timestamp

\* ------------------------------------------------------------------ C5
\* C5: the reports on disk are as many as the calls that returned their
\* result, and a successful run creates a new report file without
\* overwriting the report of the run before it.  Stated for the sequences
\* of calls that all succeeded, where no failed call has touched the disk.
C5_OneNewReportPerSuccess ==
    (pc = "exit" /\ nSucc = nCalls) =>
        /\ Cardinality(DOMAIN fs) = nSucc
        /\ ReportPath(timestamp) \notin DOMAIN fs0
        /\ prev.ok => fs[prev.path] = prev.content

\* ------------------------------------------------------------------ C6
\* C6: when the runner fails, at whatever step the exception was raised,
\* it returns None and the results directory is as it was before the call.
C6_FailureWritesNothing ==
    Failed => returned = NoneVal /\ fs = fs0

\* ------------------------------------------------------------------ C8
ResultPrinted ==
    /\ Len(stdout) >= 2
    /\ stdout[Len(stdout) - 1] = <<"\nInvestigation results:">>
    /\ stdout[Len(stdout)] = result.text

\* C8: the entry point runs one investigation and prints the result's text
\* if and only if the run succeeded, whatever object the result is.
C8_PrintsIffSucceeded ==
    (pc = "exit" /\ entry = "main") =>
        /\ kickoffs <= 1
        /\ ResultPrinted <=> exc = NoExc

\* ------------------------------------------------------------------ C9
\* C9: in every invocation of the orchestrator there are 7 tasks, each
\* assigned to exactly one agent of the roster of 8 passed in the same
\* invocation; the manager is not in the roster, is assigned no task and
\* holds no tools.
C9_RosterAndManager ==
    crew # NoCrew =>
        /\ Len(crew.tasks) = 7
        /\ Len(crew.agents) = 8
        /\ \A i, j \in 1..Len(crew.agents) : crew.agents[i] = crew.agents[j] => i = j
        /\ \A i \in 1..Len(crew.tasks) :
            Cardinality({j \in 1..Len(crew.agents) :
                            crew.agents[j] = crew.tasks[i].agent}) = 1
        /\ \A j \in 1..Len(crew.agents) : crew.agents[j] # crew.manager_agent
        /\ \A i \in 1..Len(crew.tasks) : crew.tasks[i].agent # crew.manager_agent
        /\ crew.manager_agent.tools = <<>>

\* crew.kickoff() has been called on the crew.
C9_Witness == crew # NoCrew /\ kickoffs = 1

\* ----------------------------------------------------------------- C10
Order == <<"normalize", "plan", "orchestrate", "persist", "return">>
StageOf(e) == CHOOSE i \in DOMAIN Order : Order[i] = e
Staged(e) == \E i \in DOMAIN events : events[i] = e

Embeds(out, e) == out = TemplateHead \o e \o TemplateMid \o e \o TemplateTail

\* C7 as stated: parse_osint_query("Enter target for OSINT: " + X) and
\* parse_osint_query(X) are the same text, which embeds X trimmed of its
\* surrounding blanks in the two positions of the template.
C7_Original ==
    (plain # NoText /\ prompted # NoText) =>
        /\ plain = prompted
        /\ Embeds(plain, Trimmed(typed))

\* The offsets at which the marker occurs in s.
Occurrences(s) == {i \in 0..(Len(s) - Len(Marker)) : StartsWith(Drop(s, i), Marker)}

\* C7, amended: the marker is removed wherever it occurs, not only as a
\* prefix, and the blanks around the rest are trimmed only when the marker
\* occurred.  For X without the marker, parse_osint_query(X) embeds X as it
\* is, blanks included, and parse_osint_query("Enter target for OSINT: " + X)
\* embeds X trimmed, each in the two positions of the template; the two
\* agree exactly when X has no blank at either end.  For X with one
\* occurrence of the marker, what is embedded is X without the occurrence,
\* trimmed; for X with any occurrence it is trimmed and shorter than X by at
\* least the marker.
C7_PrefixStripping ==
    /\ (plain # NoText /\ ~Contains(typed, Marker)) => Embeds(plain, typed)
    /\ (prompted # NoText /\ ~Contains(typed, Marker)) =>
            Embeds(prompted, Trimmed(typed))
    /\ (plain # NoText /\ prompted # NoText /\ ~Contains(typed, Marker)) =>
            (plain = prompted <=> typed = Trimmed(typed))
    /\ (plain # NoText /\ Cardinality(Occurrences(typed)) = 1) =>
            LET i == CHOOSE k \in Occurrences(typed) : TRUE
            IN  Embeds(plain, Trimmed(SubSeq(typed, 1, i)
                                      \o Drop(typed, i + Len(Marker))))
    /\ (plain # NoText /\ Contains(typed, Marker)) =>
            \E n \in 0..(Len(typed) - Len(Marker)) :
                LET e == SubSeq(plain, 2, n + 1)
                IN  Embeds(plain, e) /\ e = Trimmed(e)

\* Both forms of a query with a blank inside and none around.
C7_Witness ==
    /\ plain # NoText
    /\ plain = prompted
    /\ typed = <<"a", " ", "a">>

====
